---- MODULE Spec2Model ----
(***************************************************************************)
(* MdXLogseqTODOSync: one run of the constructor                           *)
(*   __init__ -> process_input -> assert matched_lines -> process_output   *)
(* over a source outline and a destination text.                           *)
(*                                                                         *)
(* Texts are sequences of tokens.  A token is a piece of text that the     *)
(* regular expressions of the program treat as a unit: a tab, a space, a   *)
(* newline, the bullet "- ", the keyword "TODO ", a delimiter, or a word.  *)
(* A delimiter pattern is a text without metacharacters, so that matching  *)
(* it is a substring search.                                               *)
(***************************************************************************)
EXTENDS Integers, Sequences, FiniteSets, TLC

VARIABLES
    input_file,             \* NoFile, or the outline the parser yields for the source text
    output_file,            \* NoFile, or the destination text
    input_delims,           \* <<start, end>>
    output_delims,          \* <<start, end>>
    bulletpoint_max_level,
    must_match_regex,
    sub_pattern,
    remove_block_properties,
    keep_new_lines,
    recursive_arg,          \* the constructor's argument `recursive`
    recursive,              \* the field self.recursive
    pc,                     \* position of the run
    error,                  \* the exception that ended the run, or NoError
    matching_blocks,        \* first pass of process_input: indices of the admitted blocks
    kept_blocks,            \* second pass of process_input: indices of the kept blocks
    matched_lines,          \* what process_input returned
    validations,            \* calls of _validate_delimiters of this run, in order
    writes,                 \* texts written to the destination in this run, in order
    output_before,          \* the destination when the run started
    runs                    \* number of runs started

config_vars == <<input_file, input_delims, output_delims, bulletpoint_max_level,
                 must_match_regex, sub_pattern, remove_block_properties,
                 keep_new_lines, recursive_arg>>
run_vars == <<recursive, pc, error, matching_blocks, kept_blocks, matched_lines,
              validations, writes, output_before, runs>>
vars == <<config_vars, output_file, run_vars>>

----------------------------------------------------------------------------
(* Tokens *)

TAB == "\\t"
SP == " "
NL == "\\n"
BULLET == "- "
TODO == "TODO "
HEADING == "# "
WORD == "x"
LETTER_A == "a"
LOGBOOK == ":LOGBOOK:"
LOGBOOK_END == ":END:"

START_SENTINEL == <<"__START__">>
END_SENTINEL == <<"__END__">>
DEFAULT_OUTPUT_DELIM_START == <<"<!-- BEGIN_TODO -->">>
DEFAULT_OUTPUT_DELIM_END == <<"<!-- END_TODO -->">>
USER_INPUT_DELIM_START == <<"BEGIN_IN">>
USER_INPUT_DELIM_END == <<"END_IN">>

DEFAULT_MUST_MATCH == "^\\s*- (TODO|DONE|DOING|NOW|LATER|#+) "
DEFAULT_SUB_PATTERN == <<"^(\\s*)- (TODO|DONE|DOING|NOW|LATER) ", "\\1- ">>
BAD_REGEX == "("
None == <<>>
NoFile == [exists |-> FALSE]
File(data) == [exists |-> TRUE, data |-> data]
NoError == "NoError"

Whitespace == {TAB, SP, NL}

----------------------------------------------------------------------------
(* Text primitives: str and re on token sequences *)

Min(S) == CHOOSE x \in S : \A y \in S : x <= y

\* t[i..j]
Slice(t, i, j) == SubSeq(t, i, j)

\* s occurs in t at position i
MatchesAt(t, s, i) ==
    /\ i >= 1
    /\ i + Len(s) - 1 <= Len(t)
    /\ \A k \in 1..Len(s) : t[i + k - 1] = s[k]

\* the first position >= from at which s occurs in t, or 0
Find(t, s, from) ==
    LET hits == {i \in from..Len(t) : MatchesAt(t, s, i)}
    IN IF hits = {} THEN 0 ELSE Min(hits)

\* s in t
Contains(t, s) == Find(t, s, 1) # 0

\* len(re.findall(s, t)): non-overlapping occurrences, left to right
RECURSIVE CountFrom(_, _, _)
CountFrom(t, s, from) ==
    LET i == Find(t, s, from)
    IN IF i = 0 THEN 0 ELSE 1 + CountFrom(t, s, i + Len(s))

ReFindallCount(s, t) == CountFrom(t, s, 1)

\* "sep".join(lines)
RECURSIVE Join(_, _)
Join(lines, sep) ==
    IF lines = <<>> THEN <<>>
    ELSE IF Len(lines) = 1 THEN lines[1]
    ELSE lines[1] \o <<sep>> \o Join(Tail(lines), sep)

\* t.split(sep)
RECURSIVE Split(_, _)
Split(t, sep) ==
    LET i == Find(t, <<sep>>, 1)
    IN IF i = 0 THEN <<t>>
       ELSE <<Slice(t, 1, i - 1)>> \o Split(Slice(t, i + 1, Len(t)), sep)

\* t.replace("\t", "    ")
RECURSIVE ReplaceTabs(_)
ReplaceTabs(t) ==
    IF t = <<>> THEN <<>>
    ELSE (IF Head(t) = TAB THEN <<SP, SP, SP, SP>> ELSE <<Head(t)>>) \o ReplaceTabs(Tail(t))

\* number of leading tokens of t that lie in S
RECURSIVE LeadingCount(_, _)
LeadingCount(t, S) ==
    IF t = <<>> \/ Head(t) \notin S THEN 0 ELSE 1 + LeadingCount(Tail(t), S)

\* t.strip() == ""
IsBlank(t) == \A i \in 1..Len(t) : t[i] \in Whitespace

\* t.rstrip()
RECURSIVE RStrip(_)
RStrip(t) ==
    IF t = <<>> THEN <<>>
    ELSE IF t[Len(t)] \in Whitespace THEN RStrip(Slice(t, 1, Len(t) - 1))
    ELSE t

\* textwrap.dedent: lines of blanks become empty, the other lines lose their
\* common leading run of spaces and tabs.
LineIsBlank(l) == \A i \in 1..Len(l) : l[i] \in {SP, TAB}

\* the longest common prefix of two texts
RECURSIVE CommonPrefix(_, _)
CommonPrefix(a, b) ==
    IF a = <<>> \/ b = <<>> \/ Head(a) # Head(b) THEN <<>>
    ELSE <<Head(a)>> \o CommonPrefix(Tail(a), Tail(b))

Indent(l) == Slice(l, 1, LeadingCount(l, {SP, TAB}))

RECURSIVE Margin(_)
Margin(ls) ==
    \* ls: the indents of the non-blank lines, non-empty
    IF Len(ls) = 1 THEN ls[1] ELSE CommonPrefix(ls[1], Margin(Tail(ls)))

Dedent(t) ==
    LET lines == Split(t, NL)
        norm == [i \in 1..Len(lines) |-> IF LineIsBlank(lines[i]) THEN <<>> ELSE lines[i]]
        idx == {i \in 1..Len(norm) : norm[i] # <<>>}
        indents == [k \in 1..Cardinality(idx) |->
                       Indent(norm[CHOOSE i \in idx : Cardinality({j \in idx : j < i}) = k - 1])]
        margin == IF idx = {} THEN <<>> ELSE Margin(indents)
        cut == [i \in 1..Len(norm) |->
                   IF norm[i] = <<>> THEN <<>>
                   ELSE Slice(norm[i], Len(margin) + 1, Len(norm[i]))]
    IN Join(cut, NL)

----------------------------------------------------------------------------
(* _validate_delimiters *)

Outcome(err, which) == [error |-> err, which |-> which]
Valid == Outcome(NoError, "neither")

\* the check of the start delimiter
ValidateStart(content, start_delim) ==
    IF start_delim # START_SENTINEL
    THEN LET start_count == ReFindallCount(start_delim, content)
         IN IF start_count = 0 THEN Outcome("MissingDelimiter", "start")
            ELSE IF start_count > 1 THEN Outcome("DuplicateDelimiter", "start")
            ELSE Valid
    ELSE Valid

\* ValidateEnd with the end sentinel exempt from the duplicate check
ValidateEnd_SentinelExempt(content, end_delim) ==
    LET end_count == ReFindallCount(end_delim, content)
    IN IF end_delim = END_SENTINEL THEN Valid
       ELSE IF end_count = 0 THEN Outcome("MissingDelimiter", "end")
       ELSE IF end_count > 1 THEN Outcome("DuplicateDelimiter", "end")
       ELSE Valid

\* the check of the end delimiter
ValidateEnd(content, end_delim) ==
    LET end_count == ReFindallCount(end_delim, content)
    IN IF end_count = 0 /\ end_delim # END_SENTINEL THEN Outcome("MissingDelimiter", "end")
       ELSE IF end_count > 1 THEN Outcome("DuplicateDelimiter", "end")
       ELSE Valid

\* the start delimiter is checked first; the first check that fails raises
ValidateDelimiters(content, delims) ==
    LET s == ValidateStart(content, delims[1])
    IN IF s # Valid THEN s ELSE ValidateEnd(content, delims[2])

Validation(file_type, content, delims) ==
    [file_type |-> file_type, content |-> content, delims |-> delims,
     result |-> ValidateDelimiters(content, delims)]

----------------------------------------------------------------------------
(* process_input *)

\* the text of the source file: its blocks, one per line
FileContent(blocks) == Join([i \in 1..Len(blocks) |-> blocks[i].content], NL)

\* re.compile(regex) succeeds
Compiles(regex) == regex # BAD_REGEX

\* pattern.search(block_content), for the default must_match_regex
PatternSearch(regex, block_content) ==
    LET k == LeadingCount(block_content, Whitespace)
    IN /\ regex = DEFAULT_MUST_MATCH
       /\ Len(block_content) >= k + 2
       /\ block_content[k + 1] = BULLET
       /\ block_content[k + 2] \in {TODO, HEADING}

\* start_delim = "a"; while start_delim in content: start_delim *= 2
RECURSIVE Doubled(_, _)
Doubled(start_delim, content) ==
    IF Contains(content, start_delim) THEN Doubled(start_delim \o start_delim, content)
    ELSE start_delim

\* the condition under which the first pass stores a block
Admits(inside_section, is_match, rec, indentation_level, previous_indentation) ==
    inside_section /\ (is_match \/ (rec /\ indentation_level > previous_indentation))

\* the last statement of the loop body of the first pass
AdmitStep(st, i, block, regex, rec, inside_section, start_delim, previous_indentation) ==
    IF Admits(inside_section, PatternSearch(regex, block.content), rec,
              block.indentation_level, previous_indentation)
    THEN [inside_section |-> inside_section, start_delim |-> start_delim,
          previous_indentation |-> block.indentation_level,
          matching_blocks |-> Append(st.matching_blocks, i)]
    ELSE [inside_section |-> inside_section, start_delim |-> start_delim,
          previous_indentation |-> previous_indentation,
          matching_blocks |-> st.matching_blocks]

\* the first loop of process_input, from block i on
RECURSIVE FirstPass(_, _, _, _, _, _, _)
FirstPass(blocks, content, end_delim, regex, rec, i, st) ==
    IF i > Len(blocks) THEN st.matching_blocks
    ELSE
      LET block == blocks[i]
          prev == IF block.indentation_level < st.previous_indentation
                  THEN block.indentation_level ELSE st.previous_indentation
      IN IF st.start_delim = START_SENTINEL
         THEN FirstPass(blocks, content, end_delim, regex, rec, i + 1,
                        AdmitStep(st, i, block, regex, rec, TRUE,
                                  Doubled(<<LETTER_A>>, content), prev))
         ELSE IF Contains(block.content, st.start_delim)
         THEN FirstPass(blocks, content, end_delim, regex, rec, i + 1,
                        [st EXCEPT !.inside_section = TRUE, !.previous_indentation = prev])
         ELSE IF st.inside_section /\ end_delim # END_SENTINEL
                 /\ Contains(block.content, end_delim)
         THEN st.matching_blocks
         ELSE FirstPass(blocks, content, end_delim, regex, rec, i + 1,
                        AdmitStep(st, i, block, regex, rec, st.inside_section,
                                  st.start_delim, prev))

MatchingBlocks(blocks, delims, regex, rec) ==
    FirstPass(blocks, FileContent(blocks), delims[2], regex, rec, 1,
              [inside_section |-> FALSE, start_delim |-> delims[1],
               previous_indentation |-> blocks[1].indentation_level,
               matching_blocks |-> <<>>])

\* the condition under which the second pass keeps a block
Keeps(max_level, rec, indentation_level, previous_indentation) ==
    \/ max_level = -1
    \/ indentation_level >= max_level
    \/ (rec /\ indentation_level > previous_indentation)

\* the second loop of process_input, from the k-th matching block on
RECURSIVE SecondPass(_, _, _, _, _, _, _)
SecondPass(blocks, matching, max_level, rec, k, previous_indentation, kept) ==
    IF k > Len(matching) THEN kept
    ELSE
      LET block == blocks[matching[k]]
          prev == IF block.indentation_level < previous_indentation
                  THEN block.indentation_level ELSE previous_indentation
      IN IF Keeps(max_level, rec, block.indentation_level, prev)
         THEN SecondPass(blocks, matching, max_level, rec, k + 1,
                         block.indentation_level, Append(kept, matching[k]))
         ELSE SecondPass(blocks, matching, max_level, rec, k + 1, prev, kept)

KeptBlocks(blocks, matching, max_level, rec) ==
    SecondPass(blocks, matching, max_level, rec, 1,
               blocks[matching[1]].indentation_level, <<>>)

\* re.sub(":LOGBOOK:.*:END:", "", content, flags=re.MULTILINE|re.DOTALL)
RemoveLogbook(content) ==
    LET i == Find(content, <<LOGBOOK>>, 1)
        ends == {j \in (i + 1)..Len(content) : content[j] = LOGBOOK_END}
    IN IF i = 0 \/ ends = {} THEN content
       ELSE LET j == CHOOSE e \in ends : \A f \in ends : f <= e
            IN Slice(content, 1, i - 1) \o Slice(content, j + 1, Len(content))

\* what the second pass appends for a kept block (the parser's property
\* mapping is not modelled: a block has its content and its level)
Emit(block, remove_props) ==
    IF remove_props /\ Contains(block.content, <<LOGBOOK>>)
                    /\ Contains(block.content, <<LOGBOOK_END>>)
    THEN RStrip(RemoveLogbook(block.content))
    ELSE block.content

InputResult(err, validation, matching, kept, lines) ==
    [error |-> err, validations |-> validation, matching_blocks |-> matching,
     kept_blocks |-> kept, matched_lines |-> lines]

ProcessInput(file, delims, regex, max_level, remove_props, rec) ==
    IF ~file.exists THEN InputResult("SourceNotFound", <<>>, <<>>, <<>>, <<>>)
    ELSE
      LET blocks == file.data
          content == FileContent(blocks)
          v == Validation("input", content, delims)
      IN IF v.result # Valid THEN InputResult(v.result.error, <<v>>, <<>>, <<>>, <<>>)
         ELSE IF ~Compiles(regex) THEN InputResult("PatternCompileError", <<v>>, <<>>, <<>>, <<>>)
         ELSE IF blocks = <<>> THEN InputResult("NoBlocksFound", <<v>>, <<>>, <<>>, <<>>)
         ELSE
           LET matching == MatchingBlocks(blocks, delims, regex, rec)
           IN IF matching = <<>> THEN InputResult("NoMatchingBlocks", <<v>>, <<>>, <<>>, <<>>)
              ELSE
                LET kept == KeptBlocks(blocks, matching, max_level, rec)
                IN InputResult(NoError, <<v>>, matching, kept,
                               [k \in 1..Len(kept) |-> Emit(blocks[kept[k]], remove_props)])

----------------------------------------------------------------------------
(* process_output *)

\* re.sub(self.sub_pattern[0], self.sub_pattern[1], line), for the default
\* sub_pattern: the keyword after the leading bullet is removed
ReSubLine(sub, line) ==
    LET k == LeadingCount(line, Whitespace)
    IN IF /\ sub = DEFAULT_SUB_PATTERN
          /\ Len(line) >= k + 2
          /\ line[k + 1] = BULLET
          /\ line[k + 2] = TODO
       THEN Slice(line, 1, k + 1) \o Slice(line, k + 3, Len(line))
       ELSE line

\* [m for m in matched_lines if (self.keep_new_lines or m.strip())]
FilterLines(lines, keep) == SelectSeq(lines, LAMBDA m : keep \/ ~IsBlank(m))

\* the filtered, substituted lines
FilteredLines(lines, sub, keep) ==
    LET filtered == FilterLines(lines, keep)
    IN IF sub # None THEN [i \in 1..Len(filtered) |-> ReSubLine(sub, filtered[i])]
       ELSE filtered

\* dedent("\n".join(filtered_lines).replace("\t", "    "))
Body(lines, sub, keep) == Dedent(ReplaceTabs(Join(FilteredLines(lines, sub, keep), NL)))

Replacement(lines, delims, sub, keep) ==
    delims[1] \o <<NL>> \o Body(lines, sub, keep) \o <<NL>> \o delims[2]

\* the first match of f"{start_delim}.*?{end_delim}" (re.DOTALL) at or after
\* `from`: <<first, last>>, or <<0, 0>>
ReSearch(delims, content, from) ==
    LET starts == {i \in from..Len(content) :
                      /\ MatchesAt(content, delims[1], i)
                      /\ Find(content, delims[2], i + Len(delims[1])) # 0}
    IN IF starts = {} THEN <<0, 0>>
       ELSE LET i == Min(starts)
                j == Find(content, delims[2], i + Len(delims[1]))
            IN <<i, j + Len(delims[2]) - 1>>

\* ReSub that drops the text after the span it replaces
ReSub_DropTail(delims, replacement, content, from) ==
    LET m == ReSearch(delims, content, from)
    IN IF m[1] = 0 THEN Slice(content, from, Len(content))
       ELSE Slice(content, from, m[1] - 1) \o replacement

\* re.sub(pattern, replacement, content, flags=re.DOTALL), from `from` on
RECURSIVE ReSub(_, _, _, _)
ReSub(delims, replacement, content, from) ==
    LET m == ReSearch(delims, content, from)
    IN IF m[1] = 0 THEN Slice(content, from, Len(content))
       ELSE Slice(content, from, m[1] - 1) \o replacement
            \o ReSub(delims, replacement, content, m[2] + 1)

\* NewContent that puts a newline in front of the block also when the
\* destination is empty
NewContent_AlwaysNewline(content, replacement, delims) ==
    IF ReSearch(delims, content, 1)[1] # 0
    THEN ReSub(delims, replacement, content, 1)
    ELSE content \o <<NL>> \o replacement

\* the text process_output writes
NewContent(content, replacement, delims) ==
    IF ReSearch(delims, content, 1)[1] # 0
    THEN ReSub(delims, replacement, content, 1)
    ELSE IF content # <<>> THEN content \o <<NL>> \o replacement ELSE replacement

OutputResult(err, validation, written) ==
    [error |-> err, validations |-> validation, writes |-> written]

\* ProcessOutput that opens the destination for writing before it validates
ProcessOutput_WriteFirst(file, lines, delims, sub, keep) ==
    LET content == IF file.exists THEN file.data ELSE <<>>
        v == Validation("output", content, delims)
        written == <<NewContent(content, Replacement(lines, delims, sub, keep), delims)>>
    IN IF content # <<>> /\ v.result # Valid
       THEN OutputResult(v.result.error, <<v>>, written)
       ELSE OutputResult(NoError, IF content # <<>> THEN <<v>> ELSE <<>>, written)

ProcessOutput(file, lines, delims, sub, keep) ==
    LET content == IF file.exists THEN file.data ELSE <<>>
        v == Validation("output", content, delims)
    IN IF content # <<>> /\ v.result # Valid
       THEN OutputResult(v.result.error, <<v>>, <<>>)
       ELSE OutputResult(NoError, IF content # <<>> THEN <<v>> ELSE <<>>,
                         <<NewContent(content, Replacement(lines, delims, sub, keep), delims)>>)

----------------------------------------------------------------------------
(* Bounds *)

MaxBlocks == 3          \* blocks of an outline, extraction
MaxDepth == 2           \* indentation levels 0..MaxDepth, extraction
MaxLevel == 2           \* bulletpoint_max_level in {-1} \cup 1..MaxLevel
MaxValidateBlocks == 3  \* blocks of an outline, validation
MaxSpliceBlocks == 2    \* blocks of an outline, splicing
MaxSpliceDepth == 1     \* indentation levels, splicing
MaxDestLen == 3         \* tokens of the destination text at the start
MaxRuns == 2            \* runs of the program on the same files

----------------------------------------------------------------------------
(* Inputs *)

RECURSIVE Tabs(_)
Tabs(n) == IF n = 0 THEN <<>> ELSE <<TAB>> \o Tabs(n - 1)

\* what a block of the source says, after its indentation
TodoItem == <<BULLET, TODO, WORD>>
HeadingItem == <<BULLET, HEADING, WORD>>
PlainItem == <<BULLET, WORD>>
LetterItem == <<BULLET, LETTER_A>>
StartMarker == <<BULLET>> \o USER_INPUT_DELIM_START
EndMarker == <<BULLET>> \o USER_INPUT_DELIM_END
SentinelText == <<BULLET>> \o END_SENTINEL
LoggedItem == <<BULLET, TODO, WORD, NL, LOGBOOK, WORD, LOGBOOK_END, NL>>
OutputEndItem == <<BULLET, TODO>> \o DEFAULT_OUTPUT_DELIM_END
Blank == <<>>

Block(level, text) == [indentation_level |-> level, content |-> Tabs(level) \o text]

Blocks(texts, depth) == {Block(l, t) : l \in 0..depth, t \in texts}

Outlines(texts, depth, lo, hi) ==
    {File(o) : o \in UNION {[1..n -> Blocks(texts, depth)] : n \in lo..hi}}

Texts(alphabet, n) == {File(t) : t \in UNION {[1..k -> alphabet] : k \in 0..n}}

DestAlphabet ==
    {DEFAULT_OUTPUT_DELIM_START[1], DEFAULT_OUTPUT_DELIM_END[1], WORD}

Levels == {-1} \cup 1..MaxLevel

----------------------------------------------------------------------------
(* The run *)

InitWith(files, dests, indelims, levels, regexes, subs, removes, keeps, recs) ==
    /\ input_file \in files
    /\ output_file \in dests
    /\ input_delims \in indelims
    /\ output_delims = <<DEFAULT_OUTPUT_DELIM_START, DEFAULT_OUTPUT_DELIM_END>>
    /\ bulletpoint_max_level \in levels
    /\ must_match_regex \in regexes
    /\ sub_pattern \in subs
    /\ remove_block_properties \in removes
    /\ keep_new_lines \in keeps
    /\ recursive_arg \in recs
    /\ recursive = recursive_arg
    /\ pc = "init"
    /\ error = NoError
    /\ matching_blocks = <<>>
    /\ kept_blocks = <<>>
    /\ matched_lines = <<>>
    /\ validations = <<>>
    /\ writes = <<>>
    /\ output_before = output_file
    /\ runs = 1

AllInputDelims ==
    {START_SENTINEL, USER_INPUT_DELIM_START} \X {END_SENTINEL, USER_INPUT_DELIM_END}

\* extraction: outlines of up to MaxBlocks blocks, every delimiter pair and level
InitExtract ==
    InitWith(Outlines({TodoItem, PlainItem, StartMarker, EndMarker}, MaxDepth, 0, MaxBlocks),
             {NoFile}, AllInputDelims, Levels, {DEFAULT_MUST_MATCH},
             {DEFAULT_SUB_PATTERN}, {TRUE}, {TRUE}, BOOLEAN)

\* validation: source texts with any number of occurrences of each delimiter
InitValidate ==
    InitWith(Outlines({TodoItem, LetterItem, StartMarker, EndMarker, SentinelText},
                      0, 0, MaxValidateBlocks),
             {NoFile}, AllInputDelims, {-1}, {DEFAULT_MUST_MATCH},
             {DEFAULT_SUB_PATTERN}, {TRUE}, {TRUE}, {TRUE})

ValidDest ==
    File(<<WORD>> \o DEFAULT_OUTPUT_DELIM_START \o <<WORD>> \o DEFAULT_OUTPUT_DELIM_END
         \o <<WORD>>)
SwappedDest == File(DEFAULT_OUTPUT_DELIM_END \o DEFAULT_OUTPUT_DELIM_START)

SentinelDelims == {<<START_SENTINEL, END_SENTINEL>>}

\* splicing: every destination text of up to MaxDestLen tokens
InitDestinations ==
    InitWith(Outlines({TodoItem}, MaxSpliceDepth, 1, MaxSpliceBlocks),
             {NoFile} \cup Texts(DestAlphabet, MaxDestLen),
             SentinelDelims, {-1}, {DEFAULT_MUST_MATCH},
             {DEFAULT_SUB_PATTERN}, {TRUE}, {TRUE}, {TRUE})

\* splicing: lines of every indentation, blank lines among them
InitIndentedLines ==
    InitWith(Outlines({TodoItem, Blank}, MaxSpliceDepth, 1, MaxSpliceBlocks),
             {NoFile, File(<<>>), ValidDest, SwappedDest},
             SentinelDelims, {-1}, {DEFAULT_MUST_MATCH},
             {None, DEFAULT_SUB_PATTERN}, {TRUE}, BOOLEAN, {TRUE})

\* splicing: lines of every kind
InitLineKinds ==
    InitWith(Outlines({TodoItem, HeadingItem, LoggedItem, OutputEndItem},
                      0, 1, MaxSpliceBlocks),
             {NoFile, File(<<>>), ValidDest, SwappedDest},
             SentinelDelims, {-1}, {DEFAULT_MUST_MATCH},
             {None, DEFAULT_SUB_PATTERN}, BOOLEAN, {TRUE}, {TRUE})

\* every way a run fails before process_output
InitFailures ==
    InitWith({NoFile} \cup Outlines({TodoItem, StartMarker, EndMarker}, 0, 0, MaxSpliceBlocks),
             {NoFile, ValidDest},
             AllInputDelims, {-1, 1}, {DEFAULT_MUST_MATCH, BAD_REGEX},
             {None, DEFAULT_SUB_PATTERN, <<BAD_REGEX, "">>}, {TRUE}, {TRUE}, {TRUE})

InitSplice ==
    \/ InitDestinations
    \/ InitIndentedLines
    \/ InitLineKinds
    \/ InitFailures

Fail(err) ==
    /\ pc' = "error"
    /\ error' = err

\* __init__, up to the call of process_input
Construct ==
    /\ pc = "init"
    /\ recursive' = TRUE
    /\ IF sub_pattern # None /\ ~Compiles(sub_pattern[1])
       THEN Fail("PatternCompileError")
       ELSE pc' = "process_input" /\ error' = error
    /\ UNCHANGED <<config_vars, output_file, matching_blocks, kept_blocks, matched_lines,
                   validations, writes, output_before, runs>>

\* matched_lines = self.process_input(); assert matched_lines
CallProcessInput ==
    /\ pc = "process_input"
    /\ LET r == ProcessInput(input_file, input_delims, must_match_regex,
                             bulletpoint_max_level, remove_block_properties, recursive)
       IN /\ matching_blocks' = r.matching_blocks
          /\ kept_blocks' = r.kept_blocks
          /\ matched_lines' = r.matched_lines
          /\ validations' = validations \o r.validations
          /\ IF r.error # NoError THEN Fail(r.error)
             ELSE IF r.matched_lines = <<>> THEN Fail("NoMatchingLines")
             ELSE pc' = "process_output" /\ error' = error
    /\ UNCHANGED <<config_vars, output_file, recursive, writes, output_before, runs>>

\* self.process_output(matched_lines)
CallProcessOutput ==
    /\ pc = "process_output"
    /\ LET r == ProcessOutput(output_file, matched_lines, output_delims,
                              sub_pattern, keep_new_lines)
       IN /\ validations' = validations \o r.validations
          /\ writes' = writes \o r.writes
          /\ output_file' = IF r.writes # <<>> THEN File(r.writes[Len(r.writes)]) ELSE output_file
          /\ IF r.error # NoError THEN Fail(r.error)
             ELSE pc' = "done" /\ error' = error
    /\ UNCHANGED <<config_vars, recursive, matching_blocks, kept_blocks, matched_lines,
                   output_before, runs>>

\* after a run that succeeded, the program is run again on the same files
\* with the same arguments
Rerun ==
    /\ pc = "done"
    /\ runs < MaxRuns
    /\ pc' = "init"
    /\ error' = NoError
    /\ recursive' = recursive_arg
    /\ matching_blocks' = <<>>
    /\ kept_blocks' = <<>>
    /\ matched_lines' = <<>>
    /\ validations' = <<>>
    /\ writes' = <<>>
    /\ output_before' = output_file
    /\ runs' = runs + 1
    /\ UNCHANGED <<config_vars, output_file>>

Next ==
    \/ Construct
    \/ CallProcessInput
    \/ CallProcessOutput
    \/ Rerun

SpecExtract == InitExtract /\ [][Next]_vars
SpecValidate == InitValidate /\ [][Next]_vars
SpecSplice == InitSplice /\ [][Next]_vars

----------------------------------------------------------------------------
(* Vocabulary of the properties *)

Ended == pc \in {"done", "error"}

\* occurrences of a delimiter in a text
Occurrences(content, delim) ==
    Cardinality({i \in 1..Len(content) : MatchesAt(content, delim, i)})

TextOf(file) == IF file.exists THEN file.data ELSE <<>>

SourceBlocks == IF input_file.exists THEN input_file.data ELSE <<>>

Level(i) == SourceBlocks[i].indentation_level

IsMatch(i) == PatternSearch(must_match_regex, SourceBlocks[i].content)

\* the blocks above block i in the outline: at each level below its own, the
\* nearest block before it
Ancestors(i) ==
    {j \in 1..(i - 1) :
        /\ Level(j) < Level(i)
        /\ \A m \in (j + 1)..(i - 1) : Level(m) > Level(j)}

Range(f) == {f[k] : k \in DOMAIN f}

\* the matching blocks stored before block i
AdmittedBefore(i) == {j \in Range(matching_blocks) : j < i}
KeptBefore(i) == {j \in Range(kept_blocks) : j < i}

HasBlock(delim) == {i \in 1..Len(SourceBlocks) : Contains(SourceBlocks[i].content, delim)}

\* the first block of the section, and the block that ends it (0: none)
SectionStart ==
    IF input_delims[1] = START_SENTINEL THEN 0
    ELSE IF HasBlock(input_delims[1]) = {} THEN Len(SourceBlocks) + 1
    ELSE Min(HasBlock(input_delims[1]))

SectionEnd ==
    LET ends == {i \in HasBlock(input_delims[2]) : i > SectionStart}
    IN IF input_delims[2] = END_SENTINEL \/ ends = {} THEN Len(SourceBlocks) + 1
       ELSE Min(ends)

LinesFreeOfOutputDelims ==
    \A k \in 1..Len(matched_lines) :
        /\ ~Contains(matched_lines[k], output_delims[1])
        /\ ~Contains(matched_lines[k], output_delims[2])

OutputValidations == SelectSeq(validations, LAMBDA v : v.file_type = "output")
InputValidations == SelectSeq(validations, LAMBDA v : v.file_type = "input")

----------------------------------------------------------------------------
(* Properties *)

\* C1: a run on a destination that a successful run wrote, with the same
\* matched lines and configuration, succeeds and leaves the destination text
\* as it found it.  Stated for matched lines that hold no output delimiter.
C1_SpliceIdempotent ==
    (runs >= 2 /\ Ended /\ LinesFreeOfOutputDelims) =>
        /\ pc = "done"
        /\ output_file = output_before

\* C2, as stated: _validate_delimiters returns without error exactly when the
\* start delimiter is the sentinel or occurs once, and the end delimiter
\* occurs once or is the sentinel and does not occur; every non-sentinel
\* delimiter that does not occur makes it fail with MissingDelimiter, and
\* every delimiter that occurs more than once makes it fail with
\* DuplicateDelimiter, the end sentinel included.
C2_EveryDelimiterReported ==
    \A k \in 1..Len(validations) :
        LET v == validations[k]
            start == v.delims[1]
            end == v.delims[2]
            ns == Occurrences(v.content, start)
            ne == Occurrences(v.content, end)
            startOk == start = START_SENTINEL \/ ns = 1
            endOk == ne = 1 \/ (end = END_SENTINEL /\ ne = 0)
        IN /\ (v.result = Valid) <=> (startOk /\ endOk)
           /\ (start # START_SENTINEL /\ ns = 0) => v.result.error = "MissingDelimiter"
           /\ (end # END_SENTINEL /\ ne = 0) => v.result.error = "MissingDelimiter"
           /\ (start # START_SENTINEL /\ ns > 1) => v.result.error = "DuplicateDelimiter"
           /\ ne > 1 => v.result.error = "DuplicateDelimiter"

\* C2, amended: _validate_delimiters returns without error exactly when the
\* start delimiter is the sentinel or occurs once, and the end delimiter
\* occurs once or is the sentinel and does not occur.  The start delimiter
\* is checked first: a non-sentinel start delimiter that does not occur
\* raises MissingDelimiter, one that occurs more than once raises
\* DuplicateDelimiter.  When the start check passes, a non-sentinel end
\* delimiter that does not occur raises MissingDelimiter and an end
\* delimiter that occurs more than once raises DuplicateDelimiter, the end
\* sentinel included.
C2_ValidationOutcome ==
    \A k \in 1..Len(validations) :
        LET v == validations[k]
            start == v.delims[1]
            end == v.delims[2]
            ns == Occurrences(v.content, start)
            ne == Occurrences(v.content, end)
            startOk == start = START_SENTINEL \/ ns = 1
            endOk == ne = 1 \/ (end = END_SENTINEL /\ ne = 0)
        IN /\ (v.result = Valid) <=> (startOk /\ endOk)
           /\ (start # START_SENTINEL /\ ns = 0) => v.result = Outcome("MissingDelimiter", "start")
           /\ (start # START_SENTINEL /\ ns > 1) => v.result = Outcome("DuplicateDelimiter", "start")
           /\ (startOk /\ end # END_SENTINEL /\ ne = 0) => v.result = Outcome("MissingDelimiter", "end")
           /\ (startOk /\ ne > 1) => v.result = Outcome("DuplicateDelimiter", "end")

\* a text with the start delimiter once and the end sentinel twice is
\* rejected as a duplicate of the end delimiter
C2_Witness ==
    \E k \in 1..Len(validations) :
        /\ validations[k].delims = <<USER_INPUT_DELIM_START, END_SENTINEL>>
        /\ Occurrences(validations[k].content, USER_INPUT_DELIM_START) = 1
        /\ Occurrences(validations[k].content, END_SENTINEL) > 1
        /\ validations[k].result = Outcome("DuplicateDelimiter", "end")

\* C3: the destination is written at most once in a run, and only after the
\* input delimiters were validated, lines were extracted and are not empty,
\* and the delimiters of a non-empty destination were validated; a run that
\* ends in an error leaves the destination as it was.
C3_NoWriteOnFailure ==
    /\ Len(writes) <= 1
    /\ writes # <<>> =>
          /\ pc = "done"
          /\ Len(InputValidations) = 1
          /\ InputValidations[1].result = Valid
          /\ kept_blocks # <<>>
          /\ matched_lines # <<>>
          /\ TextOf(output_before) # <<>> =>
                /\ Len(OutputValidations) = 1
                /\ OutputValidations[1].result = Valid
                /\ OutputValidations[1].content = TextOf(output_before)
    /\ pc = "error" => (writes = <<>> /\ output_file = output_before)
    /\ pc # "done" => output_file = output_before

\* a run that fails on a duplicate delimiter of a destination that held text
C3_Witness ==
    /\ pc = "error"
    /\ error = "DuplicateDelimiter"
    /\ Len(OutputValidations) = 1
    /\ output_file = output_before
    /\ Len(TextOf(output_file)) = MaxDestLen

\* C4: a run constructed with recursive = false on an outline none of whose
\* blocks satisfies must_match_regex never reaches process_output: it fails
\* with the no-matches error and writes nothing.
C4_EmptyMatchFails ==
    (/\ ~recursive_arg
     /\ \A i \in 1..Len(SourceBlocks) : ~IsMatch(i)) =>
        /\ pc \notin {"process_output", "done"}
        /\ writes = <<>>

\* C5: after a successful run whose lines hold no output delimiter, the
\* destination holds each output delimiter at most once, and no later run
\* fails on a duplicate delimiter of the destination.
C5_DelimitersStayUnique ==
    LinesFreeOfOutputDelims =>
        /\ pc = "done" =>
              /\ Occurrences(TextOf(output_file), output_delims[1]) <= 1
              /\ Occurrences(TextOf(output_file), output_delims[2]) <= 1
        /\ (runs >= 2 /\ pc = "error") => error # "DuplicateDelimiter"

\* C6: into an absent or empty destination, process_output validates nothing
\* and writes start delimiter, newline, body, newline, end delimiter, with no
\* newline in front.
C6_AppendIntoEmpty ==
    (pc = "done" /\ TextOf(output_before) = <<>>) =>
        /\ OutputValidations = <<>>
        /\ TextOf(output_file) =
              output_delims[1] \o <<NL>>
              \o Body(matched_lines, sub_pattern, keep_new_lines)
              \o <<NL>> \o output_delims[2]
        /\ writes = <<TextOf(output_file)>>
        /\ Head(TextOf(output_file)) # NL

\* an indented TODO item written into an absent destination: the keyword and
\* the indentation are gone
C6_Witness ==
    /\ pc = "done"
    /\ ~output_before.exists
    /\ Len(SourceBlocks) = 1
    /\ SourceBlocks[1] = Block(1, TodoItem)
    /\ sub_pattern = DEFAULT_SUB_PATTERN
    /\ TextOf(output_file) =
          DEFAULT_OUTPUT_DELIM_START \o <<NL, BULLET, WORD, NL>> \o DEFAULT_OUTPUT_DELIM_END

\* C7: with recursive enabled, in the first pass, every admitted block whose content does not satisfy
\* must_match_regex has an ancestor that was admitted before it.
C7_RecursiveAdmitsDescendants ==
    recursive_arg =>
        \A i \in Range(matching_blocks) :
            ~IsMatch(i) => (Ancestors(i) \cap AdmittedBefore(i)) # {}

\* C8: every extracted line comes from a block after the block of the start
\* delimiter and before the first block of the section that holds the end
\* delimiter.
C8_SectionBounds ==
    \A i \in Range(matching_blocks) \cup Range(kept_blocks) :
        /\ i > SectionStart
        /\ i < SectionEnd

\* C9: in the second pass, a matching block is kept exactly when
\* bulletpoint_max_level is -1, or its level is at least bulletpoint_max_level,
\* or one of its ancestors was kept before it; a kept block below the maximum
\* level comes after a kept block of a smaller level.
C9_MaxLevelTruncation ==
    \A i \in Range(matching_blocks) :
        /\ (i \in Range(kept_blocks)) <=>
              \/ bulletpoint_max_level = -1
              \/ Level(i) >= bulletpoint_max_level
              \/ (Ancestors(i) \cap KeptBefore(i)) # {}
        /\ (/\ i \in Range(kept_blocks)
            /\ bulletpoint_max_level # -1
            /\ Level(i) < bulletpoint_max_level) =>
              \E j \in KeptBefore(i) : Level(j) < Level(i)

\* C10: process_output leaves the text before the start delimiter and the
\* text after the end delimiter as they were; a destination without a span
\* from the start to the end delimiter is a prefix of what is written.
C10_SpliceFrame ==
    pc = "done" =>
        LET old == TextOf(output_before)
            new == TextOf(output_file)
            i == Find(old, output_delims[1], 1)
            j == IF i = 0 THEN 0 ELSE Find(old, output_delims[2], i + 1)
            tail == Len(old) - j
        IN IF i # 0 /\ j # 0
           THEN /\ Len(new) >= i + tail + 1
                /\ SubSeq(new, 1, i - 1) = SubSeq(old, 1, i - 1)
                /\ new[i] = output_delims[1][1]
                /\ SubSeq(new, Len(new) - tail + 1, Len(new)) = SubSeq(old, j + 1, Len(old))
                /\ new[Len(new) - tail] = output_delims[2][1]
           ELSE /\ Len(new) > Len(old)
                /\ SubSeq(new, 1, Len(old)) = old

\* a destination with text before, between and after the delimiters is spliced
C10_Witness ==
    /\ pc = "done"
    /\ output_before = ValidDest
    /\ output_file # output_before
    /\ TextOf(output_file)[1] = WORD
    /\ TextOf(output_file)[Len(TextOf(output_file))] = WORD

====
